---------------------------- MODULE Spec2Model ----------------------------
(***************************************************************************)
(* Model of the stats classification and aggregation engine of kana-dojo's *)
(* Progress feature: calculateAccuracy, detectContentType,                 *)
(* classifyCharacter, calculateMasteryDistribution, the derived queries of *)
(* useStatsAggregator / CharacterMasteryPanel and the gauntlet refresh.    *)
(*                                                                         *)
(* Numbers.  The code computes accuracies in IEEE-754 doubles.  The model  *)
(* keeps every quotient as an exact fraction [num, den] with den > 0 and   *)
(* compares fractions by cross-multiplication.  For counters far below     *)
(* 2^26 the correctly rounded division and multiplication are monotone and *)
(* keep distinct quotients distinct, and fl(c/t) >= fl(0.9), fl(c/t) <     *)
(* fl(0.7) agree with 10c >= 9t, 10c < 7t, so every comparison the code    *)
(* makes on doubles has the outcome the model computes on fractions.       *)
(***************************************************************************)
EXTENDS Integers, Sequences, FiniteSets, TLC

VARIABLES
    \* one character record and the values last derived from it
    correct, incorrect, accuracy, masteryLevel,
    \* a string (its UTF-16 code units) and the content type last detected
    character, contentType,
    \* the store's character -> counts mapping (entries in key order), the
    \* classified items built from it, and the last derived query with its
    \* return value
    rawMastery, characterMastery, query, result,
    \* the hook's state (the published gauntlet value, the loading flag, the
    \* error message) and the refreshGauntletStats calls
    gauntletStats, isLoading, error, calls,
    \* what the hook reads from the stats store and the achievement store
    allTimeStats, timedStats, achievementStore,
    \* a fastest time in milliseconds (or null) and the text formatTime last
    \* returned for it
    ms, formatted

calcVars == <<correct, incorrect, accuracy, masteryLevel>>
detectVars == <<character, contentType>>
itemVars == <<rawMastery, characterMastery, query, result>>
hookVars == <<gauntletStats, isLoading, error, calls>>
storeVars == <<allTimeStats, timedStats, achievementStore>>
displayVars == <<ms, formatted>>
vars == <<correct, incorrect, accuracy, masteryLevel, character, contentType,
          rawMastery, characterMastery, query, result,
          gauntletStats, isLoading, error, calls,
          allTimeStats, timedStats, achievementStore, ms, formatted>>

\* a result variable holds None before its function has returned, Some(v) after
None == << >>
Some(v) == <<v>>

\* largest counter value drawn for a single character record
MaxCount == 20
\* longest string drawn for content-type detection
MaxStrLen == 2
\* most entries drawn for the character -> counts mapping
MaxEntries == 3
\* largest requested count N of a top-N query
MaxTop == 2
\* most gauntlet sessions one content type reports
MaxSessions == 1
\* largest fastest completion time one content type reports
MaxTime == 2

---------------------------------------------------------------------------
\* Exact fractions

Frac(n, d) == [num |-> n, den |-> d]
FracLT(a, b) == a.num * b.den < b.num * a.den
FracLE(a, b) == a.num * b.den <= b.num * a.den

---------------------------------------------------------------------------
\* lib/calculateAccuracy.ts

\* mutant: divides by the incorrect count instead of the total
calculateAccuracyWrongDenominator(c, i) ==
    Frac(c * 100, i)

calculateAccuracy(c, i) ==
    LET total == c + i
    IN  IF total = 0 THEN Frac(0, 1)
        ELSE Frac(c * 100, total)

---------------------------------------------------------------------------
\* lib/classifyCharacter.ts

MASTERED_MIN_ATTEMPTS == 10

\* mutant: the mastered threshold is retuned below the needs-practice one
MasteredMinAccuracyRetuned == Frac(6, 10)

MASTERED_MIN_ACCURACY == Frac(9, 10)
NEEDS_PRACTICE_MIN_ATTEMPTS == 5

\* mutant: the needs-practice threshold is retuned up to the mastered one
NeedsPracticeMaxAccuracyRetuned == Frac(9, 10)

NEEDS_PRACTICE_MAX_ACCURACY == Frac(7, 10)

MasteryLevels == {"mastered", "learning", "needs-practice"}

\* mutant: mastered needs accuracy strictly above the threshold
classifyCharacterStrictMastered(c, i) ==
    LET total == c + i
    IN  IF total = 0 THEN "learning"
        ELSE LET acc == Frac(c, total)
             IN  IF total >= MASTERED_MIN_ATTEMPTS
                    /\ FracLT(MASTERED_MIN_ACCURACY, acc)
                 THEN "mastered"
                 ELSE IF total >= NEEDS_PRACTICE_MIN_ATTEMPTS
                         /\ FracLT(acc, NEEDS_PRACTICE_MAX_ACCURACY)
                      THEN "needs-practice"
                      ELSE "learning"

\* mutant: needs-practice gated by the mastered attempt threshold
classifyCharacterWrongAttempts(c, i) ==
    LET total == c + i
    IN  IF total = 0 THEN "learning"
        ELSE LET acc == Frac(c, total)
             IN  IF total >= MASTERED_MIN_ATTEMPTS
                    /\ FracLE(MASTERED_MIN_ACCURACY, acc)
                 THEN "mastered"
                 ELSE IF total >= MASTERED_MIN_ATTEMPTS
                         /\ FracLT(acc, NEEDS_PRACTICE_MAX_ACCURACY)
                      THEN "needs-practice"
                      ELSE "learning"

\* mutant: the needs-practice boundary is inclusive
classifyCharacterInclusiveBoundary(c, i) ==
    LET total == c + i
    IN  IF total = 0 THEN "learning"
        ELSE LET acc == Frac(c, total)
             IN  IF total >= MASTERED_MIN_ATTEMPTS
                    /\ FracLE(MASTERED_MIN_ACCURACY, acc)
                 THEN "mastered"
                 ELSE IF total >= NEEDS_PRACTICE_MIN_ATTEMPTS
                         /\ FracLE(acc, NEEDS_PRACTICE_MAX_ACCURACY)
                      THEN "needs-practice"
                      ELSE "learning"

classifyCharacter(c, i) ==
    LET total == c + i
    IN  IF total = 0 THEN "learning"
        ELSE LET acc == Frac(c, total)
             IN  IF total >= MASTERED_MIN_ATTEMPTS
                    /\ FracLE(MASTERED_MIN_ACCURACY, acc)
                 THEN "mastered"
                 ELSE IF total >= NEEDS_PRACTICE_MIN_ATTEMPTS
                         /\ FracLT(acc, NEEDS_PRACTICE_MAX_ACCURACY)
                      THEN "needs-practice"
                      ELSE "learning"

---------------------------------------------------------------------------
\* lib/detectContentType.ts.  A string is the sequence of its UTF-16 code units.

HIRAGANA_START == 12352
HIRAGANA_END == 12447
KATAKANA_START == 12448
KATAKANA_END == 12543
KANJI_START == 19968
KANJI_END == 40879

ContentTypes == {"kana", "kanji", "vocabulary"}

isHiragana(code) == code >= HIRAGANA_START /\ code <= HIRAGANA_END

\* mutant: the end of the katakana range is excluded
isKatakanaExclusiveEnd(code) == code >= KATAKANA_START /\ code < KATAKANA_END

isKatakana(code) == code >= KATAKANA_START /\ code <= KATAKANA_END

isKanji(code) == code >= KANJI_START /\ code <= KANJI_END

isKana(code) == isHiragana(code) \/ isKatakana(code)

detectContentType(str) ==
    IF Len(str) = 0 THEN "vocabulary"
    ELSE IF Len(str) > 1 THEN "vocabulary"
    ELSE LET code == str[1]
         IN  IF isKana(code) THEN "kana"
             ELSE IF isKanji(code) THEN "kanji"
             ELSE "kanji"

---------------------------------------------------------------------------
\* hooks/useStatsAggregator.ts and components/stats/CharacterMasteryPanel.tsx:
\* the classified items and the derived queries over them

\* Array.prototype.filter is SelectSeq: the elements satisfying the test, in
\* their order.

\* mutant: an unstable sort, elements that compare equal come out in reverse
SortTiesReversed(s, compare) ==
    LET Before(k) ==
            {j \in 1..Len(s) :
                \/ compare[j, k] < 0
                \/ (compare[j, k] = 0 /\ j > k)}
    IN  [r \in 1..Len(s) |->
            s[CHOOSE k \in 1..Len(s) : Cardinality(Before(k)) = r - 1]]

\* Array.prototype.sort with a compare function; compare[j, k] is the sign of
\* the number the function returns for (s[j], s[k]).  The sort is stable: the
\* element at index k is placed behind the elements that compare smaller and
\* behind the elements before index k that compare equal.
Sort(s, compare) ==
    LET Before(k) ==
            {j \in 1..Len(s) :
                \/ compare[j, k] < 0
                \/ (compare[j, k] = 0 /\ j < k)}
    IN  [r \in 1..Len(s) |->
            s[CHOOSE k \in 1..Len(s) : Cardinality(Before(k)) = r - 1]]

\* Array.prototype.slice(0, count) for an integer count >= 0
Slice0(s, count) == SubSeq(s, 1, IF count < Len(s) THEN count ELSE Len(s))

\* the sign of a.accuracy - b.accuracy
AccuracyDifference(a, b) ==
    IF FracLT(a.accuracy, b.accuracy) THEN -1
    ELSE IF FracLT(b.accuracy, a.accuracy) THEN 1
    ELSE 0

\* mutant: the total leaves out the incorrect answers
transformEntryTotalCorrect(entry) ==
    [character |-> entry.character,
     correct |-> entry.correct,
     incorrect |-> entry.incorrect,
     total |-> entry.correct,
     accuracy |-> calculateAccuracy(entry.correct, entry.incorrect),
     masteryLevel |-> classifyCharacter(entry.correct, entry.incorrect),
     contentType |-> detectContentType(entry.character)]

transformEntry(entry) ==
    [character |-> entry.character,
     correct |-> entry.correct,
     incorrect |-> entry.incorrect,
     total |-> entry.correct + entry.incorrect,
     accuracy |-> calculateAccuracy(entry.correct, entry.incorrect),
     masteryLevel |-> classifyCharacter(entry.correct, entry.incorrect),
     contentType |-> detectContentType(entry.character)]

transformCharacterMastery(raw) ==
    [k \in 1..Len(raw) |-> transformEntry(raw[k])]

\* mutant: the mastered case has no break and falls through the other cases
CountItemFallThrough(distribution, item) ==
    IF item.masteryLevel = "mastered"
    THEN [distribution EXCEPT !.mastered = @ + 1, !.learning = @ + 1,
                              !.needsPractice = @ + 1]
    ELSE IF item.masteryLevel = "learning"
    THEN [distribution EXCEPT !.learning = @ + 1, !.needsPractice = @ + 1]
    ELSE IF item.masteryLevel = "needs-practice"
    THEN [distribution EXCEPT !.needsPractice = @ + 1]
    ELSE distribution

\* the switch of calculateMasteryDistribution for one item
CountItem(distribution, item) ==
    IF item.masteryLevel = "mastered"
    THEN [distribution EXCEPT !.mastered = @ + 1]
    ELSE IF item.masteryLevel = "learning"
    THEN [distribution EXCEPT !.learning = @ + 1]
    ELSE IF item.masteryLevel = "needs-practice"
    THEN [distribution EXCEPT !.needsPractice = @ + 1]
    ELSE distribution

\* mutant: the mastered case returns from the loop instead of breaking
RECURSIVE CountItemsReturning(_, _)
CountItemsReturning(distribution, items) ==
    IF items = << >> THEN distribution
    ELSE IF Head(items).masteryLevel = "mastered"
    THEN CountItem(distribution, Head(items))
    ELSE CountItemsReturning(CountItem(distribution, Head(items)),
                             Tail(items))

RECURSIVE CountItems(_, _)
CountItems(distribution, items) ==
    IF items = << >> THEN distribution
    ELSE CountItems(CountItem(distribution, Head(items)), Tail(items))

calculateMasteryDistribution(items) ==
    CountItems([mastered |-> 0, learning |-> 0, needsPractice |-> 0,
                total |-> Len(items)], items)

\* mutant: the filter is compared with the mastery level
filterCharacterMasteryByLevel(items, filter) ==
    IF filter = "all" THEN items
    ELSE LET Keep(item) == item.masteryLevel = filter
         IN  SelectSeq(items, Keep)

filterCharacterMasteryByType(items, filter) ==
    IF filter = "all" THEN items
    ELSE LET Keep(item) == item.contentType = filter
         IN  SelectSeq(items, Keep)

filterByContentType(characters, type) ==
    LET Keep(char) == detectContentType(char) = type
    IN  SelectSeq(characters, Keep)

\* mutant: the compare function is reversed
getTopDifficultCharactersReversed(items, count, minAttempts) ==
    LET Keep(item) == item.total >= minAttempts
        filtered == SelectSeq(items, Keep)
        compare == [j, k \in 1..Len(filtered) |->
                        AccuracyDifference(filtered[k], filtered[j])]
    IN  Slice0(Sort(filtered, compare), count)

getTopDifficultCharacters(items, count, minAttempts) ==
    LET Keep(item) == item.total >= minAttempts
        filtered == SelectSeq(items, Keep)
        compare == [j, k \in 1..Len(filtered) |->
                        AccuracyDifference(filtered[j], filtered[k])]
    IN  Slice0(Sort(filtered, compare), count)

\* mutant: the mastered items are sorted by ascending accuracy
getTopMasteredCharactersAscending(items, count) ==
    LET Keep(item) == item.masteryLevel = "mastered"
        filtered == SelectSeq(items, Keep)
        compare == [j, k \in 1..Len(filtered) |->
                        AccuracyDifference(filtered[j], filtered[k])]
    IN  Slice0(Sort(filtered, compare), count)

getTopMasteredCharacters(items, count) ==
    LET Keep(item) == item.masteryLevel = "mastered"
        filtered == SelectSeq(items, Keep)
        compare == [j, k \in 1..Len(filtered) |->
                        AccuracyDifference(filtered[k], filtered[j])]
    IN  Slice0(Sort(filtered, compare), count)

\* mutant: the sort is applied to items itself, ahead of the filter, and
\* reorders the caller's array
ItemsSortedInPlace(items, count, minAttempts) ==
    Sort(items, [j, k \in 1..Len(items) |->
                    AccuracyDifference(items[j], items[k])])

\* The array passed as items (characters), as the caller finds it after the
\* call.  filter returns a new array and sort reorders the array it is
\* called on, which is filter's array (a spread copy of it in
\* getTopCharacters); slice copies; calculateMasteryDistribution writes to
\* its own distribution object only; filterCharacterMasteryByType returns
\* items itself for 'all' and filter's array otherwise.
ItemsAfterGetTopDifficultCharacters(items, count, minAttempts) == items
ItemsAfterGetTopMasteredCharacters(items, count) == items
ItemsAfterGetTopCharacters(characters, count, sortBy) == characters
ItemsAfterFilterCharacterMasteryByType(items, filter) == items
ItemsAfterCalculateMasteryDistribution(items) == items

\* mutant: the sorted list is returned without the slice
getTopCharactersNoSlice(characters, count, sortBy) ==
    LET Keep(char) ==
            IF sortBy = "difficult" THEN char.total >= 5
            ELSE char.masteryLevel = "mastered"
        filtered == SelectSeq(characters, Keep)
        compare == [j, k \in 1..Len(filtered) |->
                        IF sortBy = "difficult"
                        THEN AccuracyDifference(filtered[j], filtered[k])
                        ELSE AccuracyDifference(filtered[k], filtered[j])]
    IN  Sort(filtered, compare)

\* mutant: difficult asks for the attempts mastered asks for
getTopCharactersTenAttempts(characters, count, sortBy) ==
    LET Keep(char) ==
            IF sortBy = "difficult" THEN char.total >= 10
            ELSE char.masteryLevel = "mastered"
        filtered == SelectSeq(characters, Keep)
        compare == [j, k \in 1..Len(filtered) |->
                        IF sortBy = "difficult"
                        THEN AccuracyDifference(filtered[j], filtered[k])
                        ELSE AccuracyDifference(filtered[k], filtered[j])]
    IN  Slice0(Sort(filtered, compare), count)

getTopCharacters(characters, count, sortBy) ==
    LET Keep(char) ==
            IF sortBy = "difficult" THEN char.total >= 5
            ELSE char.masteryLevel = "mastered"
        filtered == SelectSeq(characters, Keep)
        compare == [j, k \in 1..Len(filtered) |->
                        IF sortBy = "difficult"
                        THEN AccuracyDifference(filtered[j], filtered[k])
                        ELSE AccuracyDifference(filtered[k], filtered[j])]
        sorted == Sort(filtered, compare)
    IN  Slice0(sorted, count)

---------------------------------------------------------------------------
\* hooks/useStatsAggregator.ts: loadGauntletStats and refreshGauntletStats

\* the calls of refreshGauntletStats that are told apart
RefreshIds == {1, 2}

\* the three per-type fetches of one gauntlet load
GauntletTypes == {"kana", "kanji", "vocabulary"}

NoStats ==
    [totalSessions |-> 0, completedSessions |-> 0, totalCorrect |-> 0,
     totalWrong |-> 0, bestStreak |-> 0, fastestTime |-> None]

\* a fetch before its getOverallStats call, and the promise of the call
NotIssued == [status |-> "not issued", value |-> NoStats]
Pending == [status |-> "pending", value |-> NoStats]
Rejected == [status |-> "rejected", value |-> NoStats]
Fulfilled(overallStats) == [status |-> "fulfilled", value |-> overallStats]

\* a call that has not been made.  started and finished are history: the
\* call's rank among the calls made so far and among the calls that have
\* run to their end (0 before)
IdleCall ==
    [pc |-> "idle",
     fetches |-> [type \in GauntletTypes |-> NotIssued],
     rejected |-> FALSE,
     loaded |-> None,
     started |-> 0,
     finished |-> 0]

\* the number of calls that have been made, and that have run to their end
CallsStarted == Cardinality({id \in RefreshIds : calls[id].pc # "idle"})
CallsFinished == Cardinality({id \in RefreshIds : calls[id].pc = "done"})

Max3(a, b, c) ==
    LET ab == IF a >= b THEN a ELSE b
    IN  IF ab >= c THEN ab ELSE c

\* the non-null fastest times of the three results, as a set
FastestTimes(kanaStats, kanjiStats, vocabStats) ==
    {t[1] : t \in {kanaStats.fastestTime, kanjiStats.fastestTime,
                   vocabStats.fastestTime} \ {None}}

\* mutant: Math.max where the code calls Math.min
MaxOf(S) == CHOOSE t \in S : \A u \in S : t >= u

MinOf(S) == CHOOSE t \in S : \A u \in S : t <= u

\* mutant: the completion rate is left as a ratio, not scaled to a percentage
AggregateGauntletStatsRatio(kanaStats, kanjiStats, vocabStats) ==
    LET totalSessions ==
            kanaStats.totalSessions + kanjiStats.totalSessions
                + vocabStats.totalSessions
        completedSessions ==
            kanaStats.completedSessions + kanjiStats.completedSessions
                + vocabStats.completedSessions
        totalCorrect ==
            kanaStats.totalCorrect + kanjiStats.totalCorrect
                + vocabStats.totalCorrect
        totalWrong ==
            kanaStats.totalWrong + kanjiStats.totalWrong
                + vocabStats.totalWrong
        fastestTimes == FastestTimes(kanaStats, kanjiStats, vocabStats)
    IN  IF totalSessions = 0 THEN None
        ELSE Some([totalSessions |-> totalSessions,
                   completedSessions |-> completedSessions,
                   completionRate |-> Frac(completedSessions, totalSessions),
                   totalCorrect |-> totalCorrect,
                   totalWrong |-> totalWrong,
                   bestStreak |-> Max3(kanaStats.bestStreak,
                                       kanjiStats.bestStreak,
                                       vocabStats.bestStreak),
                   fastestTime |-> IF fastestTimes # {}
                                   THEN Some(MinOf(fastestTimes)) ELSE None,
                   accuracy |-> calculateAccuracy(totalCorrect, totalWrong)])

\* the body of the try block, after the three fetches have fulfilled
AggregateGauntletStats(kanaStats, kanjiStats, vocabStats) ==
    LET totalSessions ==
            kanaStats.totalSessions + kanjiStats.totalSessions
                + vocabStats.totalSessions
        completedSessions ==
            kanaStats.completedSessions + kanjiStats.completedSessions
                + vocabStats.completedSessions
        totalCorrect ==
            kanaStats.totalCorrect + kanjiStats.totalCorrect
                + vocabStats.totalCorrect
        totalWrong ==
            kanaStats.totalWrong + kanjiStats.totalWrong
                + vocabStats.totalWrong
        bestStreak ==
            Max3(kanaStats.bestStreak, kanjiStats.bestStreak,
                 vocabStats.bestStreak)
        fastestTimes == FastestTimes(kanaStats, kanjiStats, vocabStats)
        fastestTime ==
            IF fastestTimes # {} THEN Some(MinOf(fastestTimes)) ELSE None
        completionRate ==
            IF totalSessions > 0 THEN Frac(completedSessions * 100, totalSessions)
            ELSE Frac(0, 1)
    IN  IF totalSessions = 0 THEN None
        ELSE Some([totalSessions |-> totalSessions,
                   completedSessions |-> completedSessions,
                   completionRate |-> completionRate,
                   totalCorrect |-> totalCorrect,
                   totalWrong |-> totalWrong,
                   bestStreak |-> bestStreak,
                   fastestTime |-> fastestTime,
                   accuracy |-> calculateAccuracy(totalCorrect, totalWrong)])

\* mutant: the await resumes with the first fetch that settles
AllSettledFirst(fetches) ==
    \E type \in GauntletTypes :
        fetches[type].status \in {"fulfilled", "rejected"}

\* mutant: the await resumes on success only
AllSettledOnSuccess(fetches) ==
    \A type \in GauntletTypes : fetches[type].status = "fulfilled"

\* Promise.all has settled: it rejects as soon as one fetch has rejected and
\* fulfils once all three have fulfilled
AllSettled(fetches) ==
    \/ \E type \in GauntletTypes : fetches[type].status = "rejected"
    \/ \A type \in GauntletTypes : fetches[type].status = "fulfilled"

\* mutant: only the kana result decides whether there are sessions
loadGauntletStatsKanaOnly(fetches) ==
    IF \E type \in GauntletTypes : fetches[type].status = "rejected"
    THEN None
    ELSE IF fetches["kana"].value.totalSessions = 0 THEN None
    ELSE AggregateGauntletStats(fetches["kana"].value, fetches["kanji"].value,
                                fetches["vocabulary"].value)

\* mutant: a rejected fetch counts as a type without data and the rest is
\* aggregated
loadGauntletStatsPartial(fetches) ==
    AggregateGauntletStats(fetches["kana"].value, fetches["kanji"].value,
                           fetches["vocabulary"].value)

\* whether the promise of loadGauntletStats rejects: the catch block around
\* the whole body returns null, so nothing is thrown past it
loadGauntletStatsRejects(fetches) == FALSE

\* the value loadGauntletStats resolves with: None is null
loadGauntletStats(fetches) ==
    IF \E type \in GauntletTypes : fetches[type].status = "rejected"
    THEN None
    ELSE AggregateGauntletStats(fetches["kana"].value, fetches["kanji"].value,
                                fetches["vocabulary"].value)

\* refreshGauntletStats up to its await: the two set-state calls, then
\* loadGauntletStats calls getOverallStats three times and awaits Promise.all
StartRefresh(id) ==
    /\ calls[id].pc = "idle"
    /\ isLoading' = TRUE
    /\ error' = None
    /\ calls' = [calls EXCEPT
                    ![id].pc = "awaiting",
                    ![id].fetches = [type \in GauntletTypes |-> Pending],
                    ![id].started = CallsStarted + 1]
    /\ UNCHANGED <<gauntletStats, calcVars, detectVars, itemVars, storeVars,
                   displayVars>>

\* getOverallStats(type) resolves with the stats the persistence layer holds
FetchFulfils(id, type, overallStats) ==
    /\ calls[id].pc = "awaiting"
    /\ calls[id].fetches[type].status = "pending"
    /\ calls' = [calls EXCEPT ![id].fetches[type] = Fulfilled(overallStats)]
    /\ UNCHANGED <<gauntletStats, isLoading, error, calcVars, detectVars,
                   itemVars, storeVars,
                   displayVars>>

\* getOverallStats(type) rejects
FetchRejects(id, type) ==
    /\ calls[id].pc = "awaiting"
    /\ calls[id].fetches[type].status = "pending"
    /\ calls' = [calls EXCEPT ![id].fetches[type] = Rejected]
    /\ UNCHANGED <<gauntletStats, isLoading, error, calcVars, detectVars,
                   itemVars, storeVars,
                   displayVars>>

\* loadGauntletStats resumes after its await and settles its own promise
LoadSettles(id) ==
    /\ calls[id].pc = "awaiting"
    /\ AllSettled(calls[id].fetches)
    /\ calls' = [calls EXCEPT
                    ![id].pc = "loaded",
                    ![id].rejected = loadGauntletStatsRejects(calls[id].fetches),
                    ![id].loaded = loadGauntletStats(calls[id].fetches)]
    /\ UNCHANGED <<gauntletStats, isLoading, error, calcVars, detectVars,
                   itemVars, storeVars,
                   displayVars>>

\* the message the catch block of refreshGauntletStats stores
LoadFailedMessage == "Failed to load gauntlet stats"

\* mutant: a null result is not published, the value shown before is kept
RefreshResumesKeepingData(id) ==
    /\ calls[id].pc = "loaded"
    /\ IF calls[id].loaded = None
       THEN UNCHANGED gauntletStats
       ELSE gauntletStats' = calls[id].loaded
    /\ isLoading' = FALSE
    /\ calls' = [calls EXCEPT ![id].pc = "done",
                              ![id].finished = CallsFinished + 1]
    /\ UNCHANGED <<error, calcVars, detectVars, itemVars, storeVars,
                   displayVars>>

\* refreshGauntletStats resumes after its await: setGauntletStats in the try
\* block or setError in the catch block, then the finally block
RefreshResumes(id) ==
    /\ calls[id].pc = "loaded"
    /\ IF calls[id].rejected
       THEN /\ error' = Some(LoadFailedMessage)
            /\ UNCHANGED gauntletStats
       ELSE /\ gauntletStats' = calls[id].loaded
            /\ UNCHANGED error
    /\ isLoading' = FALSE
    /\ calls' = [calls EXCEPT ![id].pc = "done",
                              ![id].finished = CallsFinished + 1]
    /\ UNCHANGED <<calcVars, detectVars, itemVars, storeVars,
                   displayVars>>

---------------------------------------------------------------------------
\* components/stats/GauntletStatsPanel.tsx: formatTime.  A template literal
\* writes an integer in decimal, as ToString does.

\* mutant: the seconds are not reduced modulo 60 after the minutes
formatTimeWholeSeconds(time) ==
    IF time = None THEN "--"
    ELSE LET seconds == time[1] \div 1000
             minutes == seconds \div 60
         IN  IF minutes > 0
             THEN ToString(minutes) \o "m " \o ToString(seconds) \o "s"
             ELSE ToString(seconds) \o "s"

\* formatTime for null (None) or a number of milliseconds >= 0
formatTime(time) ==
    IF time = None THEN "--"
    ELSE LET seconds == time[1] \div 1000
             minutes == seconds \div 60
             remainingSeconds == seconds % 60
         IN  IF minutes > 0
             THEN ToString(minutes) \o "m " \o ToString(remainingSeconds)
                    \o "s"
             ELSE ToString(seconds) \o "s"

---------------------------------------------------------------------------
\* hooks/useStatsAggregator.ts: the snapshot the hook returns, recomputed on
\* every render from the stores and the published gauntlet value

\* number of achievements in the catalogue
MaxAchievements == 2

\* the achievement catalogue, as the sequence of its ids
ACHIEVEMENTS == [k \in 1..MaxAchievements |-> k]

\* a timed mode's record for the counters the store holds for it
TimedModeStats(counters) ==
    [correct |-> counters.correct,
     wrong |-> counters.wrong,
     streak |-> counters.streak,
     bestStreak |-> counters.bestStreak,
     accuracy |-> calculateAccuracy(counters.correct, counters.wrong)]

timedKana == TimedModeStats(timedStats["kana"])

\* mutant: the kanji record's accuracy is computed from the kana counters
timedKanjiKanaAccuracy ==
    [TimedModeStats(timedStats["kanji"]) EXCEPT
        !.accuracy = calculateAccuracy(timedStats["kana"].correct,
                                       timedStats["kana"].wrong)]

timedKanji == TimedModeStats(timedStats["kanji"])

timedVocabulary == TimedModeStats(timedStats["vocabulary"])

\* mutant: the answers of the gauntlet aggregate are counted into the overall
\* accuracy
overallAccuracyWithGauntlet ==
    IF gauntletStats = None
    THEN calculateAccuracy(allTimeStats.totalCorrect,
                           allTimeStats.totalIncorrect)
    ELSE calculateAccuracy(
            allTimeStats.totalCorrect + gauntletStats[1].totalCorrect,
            allTimeStats.totalIncorrect + gauntletStats[1].totalWrong)

overallAccuracy ==
    calculateAccuracy(allTimeStats.totalCorrect, allTimeStats.totalIncorrect)

\* mutant: the unlocked count is taken from the points
achievementsCountingPoints ==
    [totalPoints |-> achievementStore.totalPoints,
     level |-> achievementStore.level,
     unlockedCount |-> achievementStore.totalPoints,
     totalAchievements |-> Len(ACHIEVEMENTS)]

\* the achievements object of the snapshot; Object.keys of the unlocked map
\* are the ids in it
achievements ==
    [totalPoints |-> achievementStore.totalPoints,
     level |-> achievementStore.level,
     unlockedCount |-> Cardinality(achievementStore.unlockedAchievements),
     totalAchievements |-> Len(ACHIEVEMENTS)]

stats ==
    LET mastery == transformCharacterMastery(allTimeStats.characterMastery)
    IN  [totalSessions |-> allTimeStats.totalSessions,
         totalCorrect |-> allTimeStats.totalCorrect,
         totalIncorrect |-> allTimeStats.totalIncorrect,
         overallAccuracy |-> overallAccuracy,
         bestStreak |-> allTimeStats.bestStreak,
         uniqueCharactersLearned |-> Len(mastery),
         characterMastery |-> mastery,
         masteryDistribution |-> calculateMasteryDistribution(mastery),
         timedKana |-> timedKana,
         timedKanji |-> timedKanji,
         timedVocabulary |-> timedVocabulary,
         gauntlet |-> gauntletStats,
         achievements |-> achievements]

---------------------------------------------------------------------------
\* The parts of the state a specification does not use rest at these values

CalcIdle ==
    /\ correct = 0
    /\ incorrect = 0
    /\ accuracy = None
    /\ masteryLevel = None

DetectIdle ==
    /\ character = << >>
    /\ contentType = None

ItemsIdle ==
    /\ rawMastery = << >>
    /\ characterMastery = << >>
    /\ query = None
    /\ result = None

\* the hook right after construction: useState(null), useState(true),
\* useState(null), and no refresh called yet
\* the stores before any practice: no sessions, no answers, no achievement
\* unlocked, level 1
NoTimedStats == [correct |-> 0, wrong |-> 0, streak |-> 0, bestStreak |-> 0]

StoreIdle ==
    /\ allTimeStats = [totalSessions |-> 0, totalCorrect |-> 0,
                       totalIncorrect |-> 0, bestStreak |-> 0,
                       characterMastery |-> << >>]
    /\ timedStats = [type \in GauntletTypes |-> NoTimedStats]
    /\ achievementStore = [totalPoints |-> 0, level |-> 1,
                           unlockedAchievements |-> {}]

DisplayIdle ==
    /\ ms = None
    /\ formatted = None

HookIdle ==
    /\ gauntletStats = None
    /\ isLoading = TRUE
    /\ error = None
    /\ calls = [id \in RefreshIds |-> IdleCall]

---------------------------------------------------------------------------
\* SpecCalc: the two scalar functions applied to one record's counters

InitCalc ==
    /\ correct \in 0..MaxCount
    /\ incorrect \in 0..MaxCount
    /\ accuracy = None
    /\ masteryLevel = None
    /\ DetectIdle
    /\ ItemsIdle
    /\ HookIdle
    /\ DisplayIdle
    /\ StoreIdle

CallCalculateAccuracy ==
    /\ accuracy = None
    /\ accuracy' = Some(calculateAccuracy(correct, incorrect))
    /\ UNCHANGED <<correct, incorrect, masteryLevel, detectVars, itemVars,
                   hookVars, storeVars,
                   displayVars>>

CallClassifyCharacter ==
    /\ masteryLevel = None
    /\ masteryLevel' = Some(classifyCharacter(correct, incorrect))
    /\ UNCHANGED <<correct, incorrect, accuracy, detectVars, itemVars,
                   hookVars, storeVars,
                   displayVars>>

NextCalc ==
    \/ CallCalculateAccuracy
    \/ CallClassifyCharacter

SpecCalc == InitCalc /\ [][NextCalc]_vars

\* C1: for counters correct >= 0 and incorrect >= 0 the computed accuracy is a
\* number in [0, 100]; it is 0 when there are no attempts, 100 when every
\* attempt was correct, and 0 when every attempt was incorrect.
C1_AccuracyRange ==
    accuracy # None =>
        LET a == accuracy[1]
        IN  /\ a.den > 0
            /\ 0 <= a.num
            /\ a.num <= 100 * a.den
            /\ (correct + incorrect = 0 => a.num = 0)
            /\ (incorrect = 0 /\ correct > 0 => a.num = 100 * a.den)
            /\ (correct = 0 /\ incorrect > 0 => a.num = 0)

C1_Witness ==
    /\ accuracy # None
    /\ incorrect = 0
    /\ correct > 0
    /\ accuracy[1].num = 100 * accuracy[1].den

\* C2: a record with at least 10 attempts and correct/total >= 0.9 is classified
\* mastered, and a record with fewer than 10 attempts is never mastered.
C2_MasteredThreshold ==
    masteryLevel # None =>
        LET total == correct + incorrect
        IN  /\ (total >= 10 /\ 10 * correct >= 9 * total
                    => masteryLevel[1] = "mastered")
            /\ (total < 10 => masteryLevel[1] # "mastered")

C2_Witness ==
    /\ masteryLevel = Some("mastered")
    /\ correct + incorrect >= 10
    /\ 10 * correct = 9 * (correct + incorrect)

\* C3: a record with at least 5 attempts and correct/total < 0.7 is classified
\* needs-practice, and a record with fewer than 5 attempts never is.
C3_NeedsPracticeThreshold ==
    masteryLevel # None =>
        LET total == correct + incorrect
        IN  /\ (total >= 5 /\ 10 * correct < 7 * total
                    => masteryLevel[1] = "needs-practice")
            /\ (total < 5 => masteryLevel[1] # "needs-practice")

C3_Witness ==
    /\ masteryLevel = Some("needs-practice")
    /\ correct + incorrect >= 5
    /\ correct + incorrect < 10
    /\ 10 * correct < 7 * (correct + incorrect)

\* C4: classification always returns, with exactly one of the three levels; it
\* is learning exactly when there are no attempts or neither threshold rule
\* matches; 7 correct and 3 incorrect (exactly 70%) is learning, and 9 correct
\* and 1 incorrect (exactly 90% over 10 attempts) is mastered.
C4_TotalWithLearningDefault ==
    LET total == correct + incorrect
        masteredRule == total >= 10 /\ 10 * correct >= 9 * total
        practiceRule == total >= 5 /\ 10 * correct < 7 * total
    IN  /\ (masteryLevel = None => ENABLED CallClassifyCharacter)
        /\ (masteryLevel # None =>
                /\ masteryLevel[1] \in MasteryLevels
                /\ (masteryLevel[1] = "learning"
                        <=> (total = 0 \/ (~masteredRule /\ ~practiceRule)))
                /\ (correct = 7 /\ incorrect = 3
                        => masteryLevel[1] = "learning")
                /\ (correct = 9 /\ incorrect = 1
                        => masteryLevel[1] = "mastered"))

C4_Witness ==
    /\ masteryLevel = Some("learning")
    /\ correct = 7
    /\ incorrect = 3

\* C24: the mastered condition (total >= 10 and accuracy >= 90%) and the
\* needs-practice condition (total >= 5 and accuracy < 70%) hold for no
\* common pair of counters, so the level is the one that results when
\* needs-practice is checked before mastered.
C24_DisjointConditions ==
    masteryLevel # None =>
        LET total == correct + incorrect
            mastered == total >= 10 /\ 10 * correct >= 9 * total
            needsPractice == total >= 5 /\ 10 * correct < 7 * total
        IN  /\ ~(mastered /\ needsPractice)
            /\ masteryLevel[1] =
                    IF needsPractice THEN "needs-practice"
                    ELSE IF mastered THEN "mastered"
                    ELSE "learning"

C24_Witness ==
    /\ masteryLevel = Some("needs-practice")
    /\ correct + incorrect >= 10
    /\ 10 * correct >= 6 * (correct + incorrect)

---------------------------------------------------------------------------
\* SpecDetect: detectContentType applied to one string

\* code units drawn for the strings: 'A', NUL and both sides of the ends of
\* the three ranges
CodeUnits == {0, 65, 12351, 12352, 12447, 12448, 12543, 12544,
              19967, 19968, 40879, 40880}

RECURSIVE StringsUpTo(_)
StringsUpTo(n) ==
    IF n = 0 THEN {<< >>}
    ELSE LET shorter == StringsUpTo(n - 1)
         IN  shorter \cup {Append(str, u) : str \in shorter, u \in CodeUnits}

InitDetect ==
    /\ character \in StringsUpTo(MaxStrLen)
    /\ contentType = None
    /\ CalcIdle
    /\ ItemsIdle
    /\ HookIdle
    /\ DisplayIdle
    /\ StoreIdle

CallDetectContentType ==
    /\ contentType = None
    /\ contentType' = Some(detectContentType(character))
    /\ UNCHANGED <<character, calcVars, itemVars, hookVars, storeVars,
                   displayVars>>

NextDetect == CallDetectContentType

SpecDetect == InitDetect /\ [][NextDetect]_vars

\* C6: detection follows the ordered rule table: the empty string and strings
\* of more than one code unit are vocabulary; a single code unit in
\* [0x3040, 0x309F] or [0x30A0, 0x30FF] is kana; a single code unit in
\* [0x4E00, 0x9FAF] is kanji; any other single code unit is kanji too; so the
\* result is vocabulary if and only if the length is not 1.
C6_DetectRuleTable ==
    contentType # None =>
        LET n == Len(character)
            t == contentType[1]
        IN  /\ (n = 0 => t = "vocabulary")
            /\ (n > 1 => t = "vocabulary")
            /\ (n = 1 /\ character[1] \in (12352..12447) \cup (12448..12543)
                    => t = "kana")
            /\ (n = 1 /\ character[1] \in 19968..40879 => t = "kanji")
            /\ (n = 1 /\ character[1] \notin (12352..12543) \cup (19968..40879)
                    => t = "kanji")
            /\ (t = "vocabulary" <=> n # 1)

C6_Witness ==
    /\ contentType = Some("kanji")
    /\ character = <<65>>

---------------------------------------------------------------------------
\* SpecItems: the derived queries applied to the items of one store mapping

\* keys drawn for the mapping: hiragana A, the kanji NICHI, the two-unit word
\* NIHON and the Latin letter A.  None is an integer-like key, so
\* Object.entries lists the entries in insertion order.
Characters == {<<12354>>, <<26085>>, <<26085, 26412>>, <<65>>}

\* counters drawn for an entry, as <<correct, incorrect>>
CountPairs == {<<4, 0>>, <<2, 3>>, <<7, 3>>, <<9, 1>>, <<18, 2>>, <<10, 0>>}

RawEntries ==
    {[character |-> ch, correct |-> p[1], incorrect |-> p[2]] :
        ch \in Characters, p \in CountPairs}

\* the mappings of at most n entries; a mapping has each key once
RawMasteries(n) ==
    {raw \in UNION {[1..len -> RawEntries] : len \in 0..n} :
        \A j, k \in 1..Len(raw) :
            j # k => raw[j].character # raw[k].character}

ContentFilters == {"all"} \cup ContentTypes

\* default value of getTopDifficultCharacters' parameter minAttempts
DefaultMinAttempts == 5

Query(fn, arg, count) == Some([fn |-> fn, arg |-> arg, count |-> count])

\* the strings of the items, the input of filterByContentType
CharacterStrings ==
    [k \in 1..Len(characterMastery) |-> characterMastery[k].character]

InitItems ==
    /\ rawMastery \in RawMasteries(MaxEntries)
    /\ characterMastery = transformCharacterMastery(rawMastery)
    /\ query = None
    /\ result = None
    /\ CalcIdle
    /\ DetectIdle
    /\ HookIdle
    /\ DisplayIdle
    /\ StoreIdle

CallCalculateMasteryDistribution ==
    /\ query = None
    /\ query' = Query("calculateMasteryDistribution", "", 0)
    /\ result' = Some(calculateMasteryDistribution(characterMastery))
    /\ characterMastery' = ItemsAfterCalculateMasteryDistribution(characterMastery)
    /\ UNCHANGED <<rawMastery, calcVars, detectVars, hookVars, storeVars,
                   displayVars>>

CallFilterCharacterMasteryByType(filter) ==
    /\ query = None
    /\ query' = Query("filterCharacterMasteryByType", filter, 0)
    /\ result' = Some(filterCharacterMasteryByType(characterMastery, filter))
    /\ characterMastery' = ItemsAfterFilterCharacterMasteryByType(
                                characterMastery, filter)
    /\ UNCHANGED <<rawMastery, calcVars, detectVars, hookVars, storeVars,
                   displayVars>>

CallFilterByContentType(type) ==
    /\ query = None
    /\ query' = Query("filterByContentType", type, 0)
    /\ result' = Some(filterByContentType(CharacterStrings, type))
    /\ UNCHANGED <<rawMastery, characterMastery, calcVars, detectVars,
                   hookVars, storeVars,
                   displayVars>>

CallGetTopDifficultCharacters(count) ==
    /\ query = None
    /\ query' = Query("getTopDifficultCharacters", "", count)
    /\ result' = Some(getTopDifficultCharacters(characterMastery, count,
                                                DefaultMinAttempts))
    /\ characterMastery' = ItemsAfterGetTopDifficultCharacters(
                                characterMastery, count, DefaultMinAttempts)
    /\ UNCHANGED <<rawMastery, calcVars, detectVars, hookVars, storeVars,
                   displayVars>>

CallGetTopMasteredCharacters(count) ==
    /\ query = None
    /\ query' = Query("getTopMasteredCharacters", "", count)
    /\ result' = Some(getTopMasteredCharacters(characterMastery, count))
    /\ characterMastery' = ItemsAfterGetTopMasteredCharacters(
                                characterMastery, count)
    /\ UNCHANGED <<rawMastery, calcVars, detectVars, hookVars, storeVars,
                   displayVars>>

CallGetTopCharacters(count, sortBy) ==
    /\ query = None
    /\ query' = Query("getTopCharacters", sortBy, count)
    /\ result' = Some(getTopCharacters(characterMastery, count, sortBy))
    /\ characterMastery' = ItemsAfterGetTopCharacters(
                                characterMastery, count, sortBy)
    /\ UNCHANGED <<rawMastery, calcVars, detectVars, hookVars, storeVars,
                   displayVars>>

NextItems ==
    \/ CallCalculateMasteryDistribution
    \/ \E filter \in ContentFilters : CallFilterCharacterMasteryByType(filter)
    \/ \E type \in ContentTypes : CallFilterByContentType(type)
    \/ \E count \in 0..MaxTop : CallGetTopDifficultCharacters(count)
    \/ \E count \in 0..MaxTop : CallGetTopMasteredCharacters(count)
    \/ \E count \in 0..MaxTop, sortBy \in {"difficult", "mastered"} :
            CallGetTopCharacters(count, sortBy)

SpecItems == InitItems /\ [][NextItems]_vars

\* the query that returned, when there is one
Called(fn) == query # None /\ query[1].fn = fn

\* C5: the distribution of any collection of classified items has
\* mastered + learning + needsPractice = total = number of items, and all four
\* fields are zero for the empty collection.
C5_DistributionSumsToTotal ==
    Called("calculateMasteryDistribution") =>
        LET d == result[1]
        IN  /\ d.mastered + d.learning + d.needsPractice = d.total
            /\ d.total = Len(characterMastery)
            /\ (characterMastery = << >> =>
                    d = [mastered |-> 0, learning |-> 0, needsPractice |-> 0,
                         total |-> 0])

C5_Witness ==
    /\ Called("calculateMasteryDistribution")
    /\ result[1].mastered >= 1
    /\ result[1].learning >= 1
    /\ result[1].needsPractice >= 1

\* out holds exactly the elements of s whose content type is t, in their
\* order; types[k] is the content type of s[k]
ExactlyOfType(out, s, types, t) ==
    LET ofType == {k \in 1..Len(s) : types[k] = t}
    IN  /\ Len(out) = Cardinality(ofType)
        /\ \A k \in ofType : \E j \in 1..Len(out) : out[j] = s[k]
        /\ \A j \in 1..Len(out) : \E k \in ofType : out[j] = s[k]
        /\ \A i, j \in 1..Len(out) :
                i < j => \E k, l \in ofType :
                            k < l /\ out[i] = s[k] /\ out[j] = s[l]

ItemTypes == [k \in 1..Len(characterMastery) |-> characterMastery[k].contentType]

\* the content type of a string by the rule table of detectContentType
StringType(str) ==
    IF Len(str) # 1 THEN "vocabulary"
    ELSE IF str[1] \in 12352..12543 THEN "kana"
    ELSE "kanji"

\* C7: filtering a collection by a content type T returns only elements of
\* type T and all of them, for items and for strings alike, and the sizes of
\* the three filtered results add up to the size of the collection.
C7_FilterByType ==
    /\ (Called("filterCharacterMasteryByType") /\ query[1].arg \in ContentTypes
            => ExactlyOfType(result[1], characterMastery, ItemTypes,
                             query[1].arg))
    /\ (Called("filterByContentType")
            => ExactlyOfType(result[1], CharacterStrings,
                             [k \in 1..Len(CharacterStrings) |->
                                 StringType(CharacterStrings[k])],
                             query[1].arg))
    /\ Len(filterCharacterMasteryByType(characterMastery, "kana"))
         + Len(filterCharacterMasteryByType(characterMastery, "kanji"))
         + Len(filterCharacterMasteryByType(characterMastery, "vocabulary"))
         = Len(characterMastery)
    /\ Len(filterByContentType(CharacterStrings, "kana"))
         + Len(filterByContentType(CharacterStrings, "kanji"))
         + Len(filterByContentType(CharacterStrings, "vocabulary"))
         = Len(CharacterStrings)

C7_Witness ==
    /\ Called("filterCharacterMasteryByType")
    /\ query[1].arg = "kanji"
    /\ Len(result[1]) = 2
    /\ Len(characterMastery) = 3

\* the accuracies along s never decrease
AccuracyNonDecreasing(s) ==
    \A k \in 1..(Len(s) - 1) : ~FracLT(s[k + 1].accuracy, s[k].accuracy)

\* the accuracies along s never increase
AccuracyNonIncreasing(s) ==
    \A k \in 1..(Len(s) - 1) : ~FracLT(s[k].accuracy, s[k + 1].accuracy)

TopDifficultCalled ==
    \/ Called("getTopDifficultCharacters")
    \/ (Called("getTopCharacters") /\ query[1].arg = "difficult")

TopMasteredCalled ==
    \/ Called("getTopMasteredCharacters")
    \/ (Called("getTopCharacters") /\ query[1].arg = "mastered")

\* C8: the top-difficult list for a requested count N has at most N entries,
\* every entry has total >= 5, and the entries are in non-decreasing order of
\* accuracy.
C8_TopDifficult ==
    TopDifficultCalled =>
        /\ Len(result[1]) <= query[1].count
        /\ \A k \in 1..Len(result[1]) : result[1][k].total >= 5
        /\ AccuracyNonDecreasing(result[1])

C8_Witness ==
    /\ Called("getTopDifficultCharacters")
    /\ query[1].count = 2
    /\ Len(result[1]) = 2
    /\ FracLT(result[1][1].accuracy, result[1][2].accuracy)
    /\ Len(characterMastery) = 3
    /\ \A k \in 1..3 : characterMastery[k].total >= 5

\* C9: the top-mastered list for a requested count N has at most N entries,
\* every entry has mastery level mastered, and the entries are in
\* non-increasing order of accuracy.
C9_TopMastered ==
    TopMasteredCalled =>
        /\ Len(result[1]) <= query[1].count
        /\ \A k \in 1..Len(result[1]) : result[1][k].masteryLevel = "mastered"
        /\ AccuracyNonIncreasing(result[1])

C9_Witness ==
    /\ Called("getTopCharacters")
    /\ query[1].arg = "mastered"
    /\ query[1].count = 2
    /\ Len(result[1]) = 2
    /\ FracLT(result[1][2].accuracy, result[1][1].accuracy)
    /\ Len(characterMastery) = 3
    /\ \A k \in 1..3 : characterMastery[k].masteryLevel = "mastered"

\* the positions of the input items a top-N query may return
Eligible ==
    {k \in 1..Len(characterMastery) :
        IF TopDifficultCalled THEN characterMastery[k].total >= 5
        ELSE characterMastery[k].masteryLevel = "mastered"}

\* the position in the input of an item (the items of a mapping differ in
\* their character)
InputPosition(item) ==
    CHOOSE k \in 1..Len(characterMastery) : characterMastery[k] = item

\* C21: for a count N >= 0 the top-N list is the best N of the eligible
\* items: it has min(N, number of eligible items) entries, all of them
\* eligible items of the input, and every eligible item left out has an
\* accuracy no lower (difficult: eligible is total >= 5) or no higher
\* (mastered: eligible is masteryLevel mastered) than every entry.
C21_BestOfEligible ==
    TopDifficultCalled \/ TopMasteredCalled =>
        LET out == result[1]
            N == query[1].count
            returned == {k \in Eligible :
                            \E j \in 1..Len(out) : out[j] = characterMastery[k]}
        IN  /\ Len(out) = IF N < Cardinality(Eligible) THEN N
                          ELSE Cardinality(Eligible)
            /\ Cardinality(returned) = Len(out)
            /\ \A k \in Eligible \ returned, j \in 1..Len(out) :
                    IF TopDifficultCalled
                    THEN ~FracLT(characterMastery[k].accuracy, out[j].accuracy)
                    ELSE ~FracLT(out[j].accuracy, characterMastery[k].accuracy)

C21_Witness ==
    /\ Called("getTopMasteredCharacters")
    /\ query[1].count = 1
    /\ Cardinality(Eligible) = 3
    /\ Len(result[1]) = 1
    /\ result[1][1] = characterMastery[3]
    /\ FracLT(characterMastery[1].accuracy, result[1][1].accuracy)

\* C22: in the top-difficult and top-mastered lists, entries of equal
\* accuracy keep the relative order they had in the input collection.
C22_StableTies ==
    TopDifficultCalled \/ TopMasteredCalled =>
        \A i, j \in 1..Len(result[1]) :
            i < j /\ AccuracyDifference(result[1][i], result[1][j]) = 0 =>
                InputPosition(result[1][i]) < InputPosition(result[1][j])

C22_Witness ==
    /\ Called("getTopDifficultCharacters")
    /\ Len(characterMastery) = 3
    /\ characterMastery[1].correct = 18
    /\ characterMastery[2].correct = 7
    /\ characterMastery[3].correct = 9
    /\ result[1] = <<characterMastery[2], characterMastery[1]>>

\* the rearrangements of the positions 1..n
Rearrangements(n) ==
    {perm \in [1..n -> 1..n] :
        \A j, k \in 1..n : j # k => perm[j] # perm[k]}

\* the number of input items of a mastery level
LevelCount(level) ==
    Cardinality({k \in 1..Len(characterMastery) :
                    characterMastery[k].masteryLevel = level})

\* C23: calculateMasteryDistribution counts each level exactly (mastered,
\* learning and needsPractice are the numbers of input items of that level),
\* and returns the same distribution for every permutation of the input.
C23_ExactAndOrderIndependent ==
    Called("calculateMasteryDistribution") =>
        /\ result[1].mastered = LevelCount("mastered")
        /\ result[1].learning = LevelCount("learning")
        /\ result[1].needsPractice = LevelCount("needs-practice")
        /\ \A perm \in Rearrangements(Len(characterMastery)) :
                calculateMasteryDistribution(
                    [k \in 1..Len(characterMastery) |->
                        characterMastery[perm[k]]]) = result[1]

C23_Witness ==
    /\ Called("calculateMasteryDistribution")
    /\ Len(characterMastery) = 3
    /\ characterMastery[1].masteryLevel = "mastered"
    /\ characterMastery[2].masteryLevel = "needs-practice"
    /\ characterMastery[3].masteryLevel = "mastered"
    /\ result[1] = [mastered |-> 2, learning |-> 0, needsPractice |-> 1,
                    total |-> 3]

\* C25: the derived queries never modify what they read: after
\* filterCharacterMasteryByType, getTopDifficultCharacters,
\* getTopMasteredCharacters, getTopCharacters or calculateMasteryDistribution
\* has run, the input collection has the same items in the same order, each
\* with unchanged fields.
C25_InputsUnchanged ==
    [][query' # query =>
            /\ characterMastery' = characterMastery
            /\ rawMastery' = rawMastery]_vars

C25_Witness ==
    /\ Called("getTopDifficultCharacters")
    /\ Len(characterMastery) = 2
    /\ result[1] = <<characterMastery[2], characterMastery[1]>>
    /\ characterMastery = transformCharacterMastery(rawMastery)

\* C29: the two implementations of the top-N queries agree: for a count
\* N >= 0, getTopCharacters(items, N, 'difficult') is
\* getTopDifficultCharacters(items, N) with its default minAttempts and
\* getTopCharacters(items, N, 'mastered') is getTopMasteredCharacters(items,
\* N), entry for entry and in the same order.
C29_ImplementationsAgree ==
    /\ Called("getTopCharacters") =>
            result[1] =
                IF query[1].arg = "difficult"
                THEN getTopDifficultCharacters(characterMastery, query[1].count,
                                               DefaultMinAttempts)
                ELSE getTopMasteredCharacters(characterMastery, query[1].count)
    /\ Called("getTopDifficultCharacters") =>
            result[1] = getTopCharacters(characterMastery, query[1].count,
                                         "difficult")
    /\ Called("getTopMasteredCharacters") =>
            result[1] = getTopCharacters(characterMastery, query[1].count,
                                         "mastered")

C29_Witness ==
    /\ Called("getTopCharacters")
    /\ query[1].arg = "difficult"
    /\ query[1].count = 2
    /\ Len(characterMastery) = 3
    /\ characterMastery[1].total = 10
    /\ characterMastery[2].total = 4
    /\ characterMastery[3].total = 5
    /\ result[1] = <<characterMastery[3], characterMastery[1]>>
    /\ result[1] = getTopDifficultCharacters(characterMastery, 2,
                                             DefaultMinAttempts)

---------------------------------------------------------------------------
\* SpecGauntlet: one refresh, from the mount effect to the published value

\* sums of correct answers, wrong answers and best streaks drawn for a type
AnswerTotals ==
    {[totalCorrect |-> 0, totalWrong |-> 0, bestStreak |-> 0],
     [totalCorrect |-> 3, totalWrong |-> 1, bestStreak |-> 2]}

\* records of the shape getOverallStats resolves with
OverallStatsUpTo ==
    {[totalSessions |-> total, completedSessions |-> completed,
      totalCorrect |-> answers.totalCorrect, totalWrong |-> answers.totalWrong,
      bestStreak |-> answers.bestStreak, fastestTime |-> time] :
        total \in 0..MaxSessions,
        completed \in 0..MaxSessions,
        answers \in AnswerTotals,
        time \in {None} \cup {Some(t) : t \in 1..MaxTime}}

\* the results drawn for one getOverallStats call: the completed sessions of
\* a type are among its sessions
OverallStats ==
    {overallStats \in OverallStatsUpTo :
        overallStats.completedSessions <= overallStats.totalSessions}

InitGauntlet ==
    /\ HookIdle
    /\ DisplayIdle
    /\ StoreIdle
    /\ CalcIdle
    /\ DetectIdle
    /\ ItemsIdle

NextGauntlet ==
    \/ StartRefresh(1)
    \/ \E type \in GauntletTypes, overallStats \in OverallStats :
            FetchFulfils(1, type, overallStats)
    \/ \E type \in GauntletTypes : FetchRejects(1, type)
    \/ LoadSettles(1)
    \/ RefreshResumes(1)

SpecGauntlet == InitGauntlet /\ [][NextGauntlet]_vars

\* the combined totalSessions of the three fulfilled fetches of a call
CombinedSessions(call) ==
    call.fetches["kana"].value.totalSessions
        + call.fetches["kanji"].value.totalSessions
        + call.fetches["vocabulary"].value.totalSessions

AllFulfilled(call) ==
    \A type \in GauntletTypes : call.fetches[type].status = "fulfilled"

\* C10: the load returns null whenever the three per-type results report a
\* combined totalSessions of 0, and a non-null aggregate whenever all three
\* fetches succeed and the combined totalSessions is greater than 0.
C10_NullIffNoSessions ==
    \A id \in RefreshIds :
        calls[id].pc \in {"loaded", "done"} /\ AllFulfilled(calls[id]) =>
            /\ (CombinedSessions(calls[id]) = 0 => calls[id].loaded = None)
            /\ (CombinedSessions(calls[id]) > 0 => calls[id].loaded # None)

C10_Witness ==
    /\ calls[1].pc = "done"
    /\ AllFulfilled(calls[1])
    /\ calls[1].fetches["kana"].value.totalSessions = 0
    /\ CombinedSessions(calls[1]) > 0
    /\ gauntletStats # None

\* the combined completedSessions of the three fulfilled fetches of a call
CombinedCompleted(call) ==
    call.fetches["kana"].value.completedSessions
        + call.fetches["kanji"].value.completedSessions
        + call.fetches["vocabulary"].value.completedSessions

\* a call whose load has resolved with an aggregate
LoadedAggregate(id) ==
    /\ calls[id].pc \in {"loaded", "done"}
    /\ calls[id].loaded # None

FetchedTimes(call) ==
    {call.fetches[type].value.fastestTime[1] :
        type \in {t \in GauntletTypes :
                     call.fetches[t].value.fastestTime # None}}

\* C12: a non-null aggregate's fastestTime is the minimum of the non-null
\* per-type fastestTime values, and is null exactly when all three are null.
C12_FastestTime ==
    \A id \in RefreshIds :
        LoadedAggregate(id) =>
            LET fastestTime == calls[id].loaded[1].fastestTime
                times == FetchedTimes(calls[id])
            IN  /\ fastestTime = None <=> times = {}
                /\ fastestTime # None =>
                        /\ fastestTime[1] \in times
                        /\ \A t \in times : fastestTime[1] <= t

C12_Witness ==
    /\ LoadedAggregate(1)
    /\ calls[1].fetches["kana"].value.fastestTime = Some(2)
    /\ calls[1].fetches["kanji"].value.fastestTime = None
    /\ calls[1].fetches["vocabulary"].value.fastestTime = Some(1)
    /\ calls[1].loaded[1].fastestTime = Some(1)

---------------------------------------------------------------------------
\* SpecRefresh: two refreshGauntletStats calls that may overlap (the mount
\* effect's call and a call of the refresh function the hook returns)

\* the results drawn for a getOverallStats call of SpecRefresh
SessionStats ==
    [totalSessions |-> 1, completedSessions |-> 1, totalCorrect |-> 3,
     totalWrong |-> 1, bestStreak |-> 2, fastestTime |-> Some(1)]

RefreshResults == {NoStats, SessionStats}

InitRefresh ==
    /\ HookIdle
    /\ DisplayIdle
    /\ StoreIdle
    /\ CalcIdle
    /\ DetectIdle
    /\ ItemsIdle

NextRefresh ==
    \/ \E id \in RefreshIds : StartRefresh(id)
    \/ \E id \in RefreshIds, type \in GauntletTypes,
          overallStats \in RefreshResults :
            FetchFulfils(id, type, overallStats)
    \/ \E id \in RefreshIds, type \in GauntletTypes : FetchRejects(id, type)
    \/ \E id \in RefreshIds : LoadSettles(id)
    \/ \E id \in RefreshIds : RefreshResumes(id)

SpecRefresh == InitRefresh /\ [][NextRefresh]_vars

\* one of the three fetches of the call has failed
SomeFetchRejected(call) ==
    \E type \in GauntletTypes : call.fetches[type].status = "rejected"

\* the step in which a call publishes: refreshGauntletStats runs from its
\* await to its end
Publishes(id) ==
    /\ calls[id].pc = "loaded"
    /\ calls'[id].pc = "done"

\* C13: if any one of the three per-type fetches of a refresh fails, the
\* gauntlet value that refresh publishes is null, whatever the other two
\* fetches returned and whatever value was published before.
C13_FailedFetchPublishesNull ==
    [][\A id \in RefreshIds :
            Publishes(id) /\ SomeFetchRejected(calls[id]) =>
                gauntletStats' = None]_vars

C13_Witness ==
    \E first, second \in RefreshIds :
        /\ calls[first].finished = 1
        /\ calls[first].loaded # None
        /\ calls[second].finished = 2
        /\ calls[second].fetches["kana"].status = "rejected"
        /\ calls[second].fetches["kanji"] = Fulfilled(SessionStats)
        /\ gauntletStats = None

\* C14: when a fetch of a refresh has failed, then after the refresh has
\* finished the error field holds a non-null message and isLoading is false
\* (checked on the single call of SpecGauntlet, where no other refresh
\* touches the two fields).
C14_FailureReported ==
    calls[1].pc = "done" /\ SomeFetchRejected(calls[1]) =>
        /\ error # None
        /\ isLoading = FALSE

---------------------------------------------------------------------------
\* SpecSnapshot: the snapshot of a mounted hook, for stores in any of the
\* drawn states, while the mount effect's refresh runs

\* states of the stats store's all-time totals
AllTimeStates ==
    {[totalSessions |-> 0, totalCorrect |-> 0, totalIncorrect |-> 0,
      bestStreak |-> 0, characterMastery |-> << >>],
     [totalSessions |-> 2, totalCorrect |-> 11, totalIncorrect |-> 4,
      bestStreak |-> 4,
      characterMastery |->
          <<[character |-> <<12354>>, correct |-> 9, incorrect |-> 1],
            [character |-> <<26085>>, correct |-> 2, incorrect |-> 3]>>],
     [totalSessions |-> 3, totalCorrect |-> 20, totalIncorrect |-> 9,
      bestStreak |-> 6,
      characterMastery |->
          <<[character |-> <<26085, 26412>>, correct |-> 7, incorrect |-> 3],
            [character |-> <<12354>>, correct |-> 4, incorrect |-> 0],
            [character |-> <<65>>, correct |-> 6, incorrect |-> 4],
            [character |-> <<26085>>, correct |-> 3, incorrect |-> 2]>>]}

\* states of the counters the stats store holds for one timed mode
TimedStates ==
    {NoTimedStats,
     [correct |-> 3, wrong |-> 1, streak |-> 1, bestStreak |-> 2]}

\* the ids of the catalogue; the achievement store unlocks catalogue entries
AchievementIds == {ACHIEVEMENTS[k] : k \in DOMAIN ACHIEVEMENTS}

AchievementLevels ==
    {[totalPoints |-> 0, level |-> 1], [totalPoints |-> 150, level |-> 2]}

AchievementStates ==
    {[totalPoints |-> reached.totalPoints, level |-> reached.level,
      unlockedAchievements |-> unlocked] :
        reached \in AchievementLevels, unlocked \in SUBSET AchievementIds}

InitSnapshot ==
    /\ allTimeStats \in AllTimeStates
    /\ timedStats \in [GauntletTypes -> TimedStates]
    /\ achievementStore \in AchievementStates
    /\ HookIdle
    /\ DisplayIdle
    /\ CalcIdle
    /\ DetectIdle
    /\ ItemsIdle

NextSnapshot ==
    \/ StartRefresh(1)
    \/ \E type \in GauntletTypes, overallStats \in RefreshResults :
            FetchFulfils(1, type, overallStats)
    \/ \E type \in GauntletTypes : FetchRejects(1, type)
    \/ LoadSettles(1)
    \/ RefreshResumes(1)

SpecSnapshot == InitSnapshot /\ [][NextSnapshot]_vars

\* a snapshot with its gauntlet field blanked
NonGauntletPart(snapshot) == [snapshot EXCEPT !.gauntlet = None]

\* C15: the non-gauntlet part of the snapshot (session totals, overall
\* accuracy, character mastery, mastery distribution, the three timed-mode
\* records, achievements) depends on the stores only: no step of a gauntlet
\* refresh, pending, succeeding or failing, changes it.
C15_GauntletFrame ==
    [][UNCHANGED storeVars =>
            NonGauntletPart(stats)' = NonGauntletPart(stats)]_vars

C15_Witness ==
    /\ calls[1].pc = "done"
    /\ stats.gauntlet # None
    /\ stats.totalSessions = 2
    /\ stats.overallAccuracy = Frac(1100, 15)
    /\ stats.timedKana.correct = 3
    /\ stats.achievements.unlockedCount = 1

\* the three timed-mode records of the snapshot
TimedRecords == {stats.timedKana, stats.timedKanji, stats.timedVocabulary}

\* C17: in every snapshot, each timed-mode record (timedKana, timedKanji,
\* timedVocabulary) has an accuracy equal to the accuracy of that same
\* record's correct and wrong counters: 100 * correct / (correct + wrong),
\* or 0 when there are no answers.
C17_TimedAccuracy ==
    /\ stats.timedKana.correct = timedStats["kana"].correct
    /\ stats.timedKana.wrong = timedStats["kana"].wrong
    /\ stats.timedKanji.correct = timedStats["kanji"].correct
    /\ stats.timedKanji.wrong = timedStats["kanji"].wrong
    /\ stats.timedVocabulary.correct = timedStats["vocabulary"].correct
    /\ stats.timedVocabulary.wrong = timedStats["vocabulary"].wrong
    /\ \A record \in TimedRecords :
            LET answers == record.correct + record.wrong
            IN  /\ record.accuracy.den > 0
                /\ answers = 0 => record.accuracy.num = 0
                /\ answers > 0 =>
                        record.accuracy.num * answers
                            = 100 * record.correct * record.accuracy.den

C17_Witness ==
    /\ timedStats["kana"].correct = 3
    /\ timedStats["kana"].wrong = 1
    /\ timedStats["kanji"] = NoTimedStats
    /\ stats.timedKana.accuracy = Frac(300, 4)
    /\ stats.timedKanji.accuracy = Frac(0, 1)
    /\ calls[1].pc = "awaiting"

\* the percentage getAchievementDisplayValues shows for a summary: the
\* quotient times 100, rounded to the nearest integer by toFixed(0) (a half
\* rounds up)
ProgressPercent(summary) ==
    IF summary.totalAchievements > 0
    THEN (200 * summary.unlockedCount + summary.totalAchievements)
            \div (2 * summary.totalAchievements)
    ELSE 0

\* C18: the achievement summary's unlockedCount (the number of keys of the
\* store's unlocked set) never exceeds totalAchievements (the size of the
\* catalogue), so the progress percentage shown stays between 0 and 100.
C18_UnlockedWithinCatalogue ==
    /\ stats.achievements.unlockedCount
            = Cardinality(achievementStore.unlockedAchievements)
    /\ stats.achievements.totalAchievements = Len(ACHIEVEMENTS)
    /\ stats.achievements.unlockedCount <= stats.achievements.totalAchievements
    /\ ProgressPercent(stats.achievements) >= 0
    /\ ProgressPercent(stats.achievements) <= 100

C18_Witness ==
    /\ achievementStore.unlockedAchievements = AchievementIds
    /\ stats.achievements.unlockedCount = Len(ACHIEVEMENTS)
    /\ ProgressPercent(stats.achievements) = 100
    /\ calls[1].pc = "done"

---------------------------------------------------------------------------
\* FairSpecRefresh: SpecRefresh where every fetch that has been issued
\* settles and every continuation that is ready to run is run by the event
\* loop

\* the fetch of a call for a type settles, one way or the other
FetchSettles(id, type) ==
    \/ \E overallStats \in RefreshResults : FetchFulfils(id, type, overallStats)
    \/ FetchRejects(id, type)

FairSpecRefresh ==
    /\ SpecRefresh
    /\ \A id \in RefreshIds :
            /\ \A type \in GauntletTypes : WF_vars(FetchSettles(id, type))
            /\ WF_vars(LoadSettles(id))
            /\ WF_vars(RefreshResumes(id))

\* the step in which a call begins: refreshGauntletStats runs to its await
Begins(id) ==
    /\ calls[id].pc = "idle"
    /\ calls'[id].pc = "awaiting"

\* C16: every call of refreshGauntletStats sets isLoading to true and clears
\* error when it begins, and, provided its three fetches settle, eventually
\* runs to its end, where it sets isLoading to false, after a success and
\* after a failure alike.
C16_LoadingBracket ==
    /\ [][\A id \in RefreshIds :
                Begins(id) => isLoading' = TRUE /\ error' = None]_vars
    /\ [][\A id \in RefreshIds : Publishes(id) => isLoading' = FALSE]_vars
    /\ \A id \in RefreshIds :
            calls[id].pc = "awaiting" ~> calls[id].pc = "done"

C16_Witness ==
    /\ calls[1].pc = "done"
    /\ SomeFetchRejected(calls[1])
    /\ calls[2].pc = "done"
    /\ AllFulfilled(calls[2])
    /\ isLoading = FALSE
    /\ error = None

\* C19: overlapping refreshGauntletStats calls are not ordered: the gauntlet
\* value visible once calls have finished is the one written by the call
\* that finished last, and that call can be the one that started first.
C19_LastFinisherWins ==
    \A id \in RefreshIds :
        calls[id].pc = "done" /\ calls[id].finished = CallsFinished =>
            gauntletStats = calls[id].loaded

C19_Witness ==
    \E older, newer \in RefreshIds :
        /\ calls[older].started = 1
        /\ calls[newer].started = 2
        /\ calls[newer].finished = 1
        /\ calls[older].finished = 2
        /\ calls[newer].loaded # None
        /\ calls[older].loaded = None
        /\ gauntletStats = calls[older].loaded

\* the load of a call has produced its result
LoadProduced(id) == calls[id].pc \in {"loaded", "done"}

\* no fetch of the call is still in flight
NoFetchPending(call) ==
    \A type \in GauntletTypes :
        call.fetches[type].status \in {"fulfilled", "rejected"}

\* C20 as stated: the load produces its result only after all three fetches
\* have settled, including when one of them fails early.
C20_ResultAfterAllSettled ==
    \A id \in RefreshIds : LoadProduced(id) => NoFetchPending(calls[id])

\* C20: the gauntlet load issues all three fetches before waiting on any; it
\* produces an aggregate only after all three fetches have fulfilled, and it
\* produces null as soon as one fetch has rejected, while other fetches may
\* still be in flight.
C20_FanOutFanIn ==
    \A id \in RefreshIds :
        /\ calls[id].pc # "idle" =>
                \A type \in GauntletTypes :
                    calls[id].fetches[type].status # "not issued"
        /\ LoadProduced(id) =>
                AllFulfilled(calls[id]) \/ SomeFetchRejected(calls[id])
        /\ LoadProduced(id) /\ calls[id].loaded # None =>
                AllFulfilled(calls[id])
        /\ LoadProduced(id) /\ SomeFetchRejected(calls[id]) =>
                calls[id].loaded = None

C20_Witness ==
    /\ calls[1].pc = "loaded"
    /\ calls[1].fetches["kana"].status = "rejected"
    /\ calls[1].fetches["kanji"].status = "pending"
    /\ calls[1].fetches["vocabulary"].status = "fulfilled"
    /\ calls[1].loaded = None

---------------------------------------------------------------------------
\* SpecDisplay: formatTime applied to one fastest time

\* most whole minutes of a time drawn around a minute boundary
MaxMinutes == 2

\* whole seconds drawn: both sides of each minute boundary, and of the hour
SecondsDrawn ==
    UNION {{60 * m, 60 * m + 1, 60 * m + 59} : m \in 0..MaxMinutes}
        \cup {3599, 3600, 3661}

\* milliseconds drawn within a second
MillisDrawn == {0, 1, 499, 500, 999}

TimesDrawn ==
    {None} \cup {Some(1000 * s + m) : s \in SecondsDrawn, m \in MillisDrawn}

InitDisplay ==
    /\ ms \in TimesDrawn
    /\ formatted = None
    /\ CalcIdle
    /\ DetectIdle
    /\ ItemsIdle
    /\ HookIdle
    /\ StoreIdle

CallFormatTime ==
    /\ formatted = None
    /\ formatted' = Some(formatTime(ms))
    /\ UNCHANGED <<ms, calcVars, detectVars, itemVars, hookVars, storeVars>>

NextDisplay == CallFormatTime

SpecDisplay == InitDisplay /\ [][NextDisplay]_vars

\* C26: the displayed fastest time is '--' for null; otherwise, with
\* s = floor(ms / 1000), it is '<s>s' when s < 60 and
\* '<floor(s / 60)>m <s mod 60>s' when s >= 60, the seconds part after a
\* minutes part lying in 0..59.
C26_FormatTime ==
    formatted # None =>
        IF ms = None THEN formatted[1] = "--"
        ELSE LET s == ms[1] \div 1000
             IN  /\ s < 60 => formatted[1] = ToString(s) \o "s"
                 /\ s >= 60 =>
                        \E minutes \in 1..(s \div 60), seconds \in 0..59 :
                            /\ 60 * minutes + seconds = s
                            /\ formatted[1] =
                                ToString(minutes) \o "m " \o ToString(seconds)
                                    \o "s"

C26_Witness ==
    /\ ms = Some(3661999)
    /\ formatted = Some("61m 1s")

\* a refreshGauntletStats call that has begun and not yet run to its end
InFlight(id) == calls[id].pc \in {"awaiting", "loaded"}

\* C27: isLoading is true in every state in which at least one
\* refreshGauntletStats call is still in flight, also when two refreshes
\* overlap; it is false only when no refresh is pending.
C27_LoadingWhileInFlight ==
    (\E id \in RefreshIds : InFlight(id)) => isLoading = TRUE

---------------------------------------------------------------------------
\* SpecPractice: one character's record along a sequence of practice events,
\* with the level classifyCharacter gives it after each event

InitPractice ==
    /\ correct = 0
    /\ incorrect = 0
    /\ accuracy = None
    /\ masteryLevel = Some(classifyCharacter(0, 0))
    /\ DetectIdle
    /\ ItemsIdle
    /\ HookIdle
    /\ StoreIdle
    /\ DisplayIdle

\* the store records a correct answer for the character
PracticeCorrect ==
    /\ correct < MaxCount
    /\ correct' = correct + 1
    /\ masteryLevel' = Some(classifyCharacter(correct + 1, incorrect))
    /\ UNCHANGED <<incorrect, accuracy, detectVars, itemVars, hookVars,
                   storeVars, displayVars>>

\* the store records an incorrect answer for the character
PracticeIncorrect ==
    /\ incorrect < MaxCount
    /\ incorrect' = incorrect + 1
    /\ masteryLevel' = Some(classifyCharacter(correct, incorrect + 1))
    /\ UNCHANGED <<correct, accuracy, detectVars, itemVars, hookVars,
                   storeVars, displayVars>>

NextPractice == PracticeCorrect \/ PracticeIncorrect

SpecPractice == InitPractice /\ [][NextPractice]_vars

\* C28: along a sequence of practice events on one character, each adding 1
\* to correct or 1 to incorrect, no single event changes the level from
\* mastered to needs-practice or from needs-practice to mastered.
C28_NoDirectJump ==
    [][/\ ~(masteryLevel = Some("mastered")
                /\ masteryLevel' = Some("needs-practice"))
       /\ ~(masteryLevel = Some("needs-practice")
                /\ masteryLevel' = Some("mastered"))]_vars

C28_Witness ==
    /\ masteryLevel = Some("needs-practice")
    /\ correct + incorrect = 9
    /\ classifyCharacter(correct + 1, incorrect) = "learning"
    /\ classifyCharacter(correct + 21, incorrect) = "mastered"

\* C30: in every snapshot built from a character-to-counts mapping,
\* uniqueCharactersLearned, the length of characterMastery, the total of
\* masteryDistribution and the number of keys of the mapping are equal, and
\* each item has total = correct + incorrect, is mastered only if total >= 10
\* and accuracy >= 90, and is needs-practice only if total >= 5 and
\* accuracy < 70.
C30_SnapshotConsistent ==
    /\ stats.uniqueCharactersLearned = Len(stats.characterMastery)
    /\ stats.masteryDistribution.total = Len(stats.characterMastery)
    /\ Len(stats.characterMastery) = Len(allTimeStats.characterMastery)
    /\ \A k \in 1..Len(stats.characterMastery) :
            LET item == stats.characterMastery[k]
            IN  /\ item.character = allTimeStats.characterMastery[k].character
                /\ item.total = item.correct + item.incorrect
                /\ item.masteryLevel = "mastered" =>
                        /\ item.total >= 10
                        /\ item.accuracy.num >= 90 * item.accuracy.den
                /\ item.masteryLevel = "needs-practice" =>
                        /\ item.total >= 5
                        /\ item.accuracy.num < 70 * item.accuracy.den

C30_Witness ==
    /\ stats.uniqueCharactersLearned = 4
    /\ stats.masteryDistribution =
            [mastered |-> 0, learning |-> 2, needsPractice |-> 2, total |-> 4]
    /\ stats.characterMastery[3].masteryLevel = "needs-practice"
    /\ stats.characterMastery[3].total = 10
    /\ stats.gauntlet # None

===========================================================================
